---- MODULE Spec2Model ----
(***************************************************************************)
(* Model of langchain/utilities/rconsole.py: the RREPL run supervisor, the *)
(* worker (guarded executor), the multiprocessing queue between them and   *)
(* the memoized warn_once.                                                 *)
(*                                                                         *)
(* Two operating-system processes appear: "parent" (the caller of run) and *)
(* "child" (the multiprocessing.Process started when a timeout is given).  *)
(* Each has its own embedded R interpreter state; the child's is a copy    *)
(* taken when the process is started.                                      *)
(***************************************************************************)
EXTENDS Integers, Sequences, FiniteSets, TLC

\* ---------------------------------------------------------------- bounds
MaxCalls == 2
MaxSpin == 1

\* ---------------------------------------------------------------- inputs
Instances == {1, 2}
NoTimeout == "None"
Timeouts == {NoTimeout, "0", "1"}
Commands == {"assign", "read", "print", "printstop", "big", "loop", "crash"}
Procs == {"parent", "child"}

\* ---------------------------------------------------------------- values
Unbound == "unbound"
RNULL == "NULL"
TimedOutMarker == [str |-> "Execution timed out"]
NoReturn == [none |-> TRUE]
Raised == [exc |-> "tempfile"]
ErrText == <<"Error: boom">>
NotFoundText == <<"Error: object 'x' not found">>

VARIABLES pc, cur, nCalls, cached, emitted, interp, proc, wpc, wproc,
          outFile, errFile, locals, exc, qbuf, qpipe, expired, ret,
          spins, printed, evaluated, signalled, deposits, depositedInTime, started, terminates, busyAtDeadline,
          prev

vars == <<pc, cur, nCalls, cached, emitted, interp, proc, wpc, wproc,
          outFile, errFile, locals, exc, qbuf, qpipe, expired, ret,
          spins, printed, evaluated, signalled, deposits, depositedInTime, started, terminates, busyAtDeadline,
          prev>>

superVars == <<pc, cur, nCalls, ret, prev>>
warnVars == <<cached, emitted>>
workerVars == <<wpc, wproc, outFile, errFile, locals, exc, spins, printed, evaluated, signalled>>
queueVars == <<qbuf, qpipe, deposits, depositedInTime>>

\* ------------------------------------------------------ the R interpreter
\* what the command writes to R's print stream, in order
CmdPrints(c) ==
  CASE c = "print" -> <<"hi">>
    [] c = "printstop" -> <<"a">>
    [] c = "big" -> <<"BIG">>
    [] OTHER -> <<>>

\* does evaluating the command signal an R error
CmdRaises(c, x) == c = "printstop" \/ (c = "read" /\ x = Unbound)

\* the R condition text of that error
CmdErrText(c) == IF c = "read" THEN NotFoundText ELSE ErrText

\* the value of a command that evaluates without error
CmdValue(c, x) ==
  CASE c = "assign" -> "1"
    [] c = "read" -> x
    [] c = "print" -> "hi"
    [] c = "big" -> "BIG"
    [] OTHER -> RNULL

\* the binding of x in the global environment after the command
CmdEnv(c, x) == IF c = "assign" THEN "1" ELSE x

\* sink(file): push a diversion of the print stream
SinkPush(st, f) == [st EXCEPT !.sinks = Append(@, f)]

\* sink(): remove the top diversion (a warning, no change, when none)
SinkPop(st) ==
  [st EXCEPT !.sinks = IF Len(@) = 0 THEN @ ELSE SubSeq(@, 1, Len(@) - 1)]

\* sink(con, type = "message") and sink(type = "message")
SinkMsg(st, f) == [st EXCEPT !.msg = f]

\* where text written to the print stream lands: 0 is the process's stdout
PrintTarget(st) == IF Len(st.sinks) = 0 THEN 0 ELSE st.sinks[Len(st.sinks)]

\* ------------------------------------------------------------ the queue
\* an item larger than the pipe's buffer cannot be flushed by the feeder
\* thread until a reader drains the pipe
Fits(item) == ~("output" \in DOMAIN item.oc /\ item.oc.output = <<"BIG">>)

\* is the process in which the worker (and its feeder thread) runs alive
WAlive ==
  \/ wproc = "parent" /\ pc \in {"inline", "get"}
  \/ wproc = "child" /\ proc = "alive"

\* the interpreter state of a process that does not exist: env is the
\* binding of x in R's global environment, env2 the binding of x in the
\* environment object the second instance was constructed with
Blank == [env |-> Unbound, env2 |-> Unbound, sinks |-> <<>>, msg |-> 0]

\* the field "environment" of instance i: robjects.globalenv by default
environment(i) == IF i = 1 THEN "globalenv" ELSE "env2"

\* the binding of x in environment e of interpreter state st
EnvOf(st, e) == IF e = "globalenv" THEN st.env ELSE st.env2

\* is r an Outcome put on the queue by worker (and not the timeout marker)
IsOutcome(r) == "err" \in DOMAIN r

\* did the call of command c that returned r complete an assignment to x
Assigned(c, r) ==
  c = "assign" /\ IsOutcome(r) /\ "res" \in DOMAIN r /\ r.err = <<>>

Init ==
  /\ pc = "idle"
  /\ cur = [inst |-> 1, cmd |-> "print", timeout |-> NoTimeout]
  /\ nCalls = 0
  /\ cached = FALSE
  /\ emitted = 0
  /\ interp = [p \in Procs |-> Blank]
  /\ proc = "none"
  /\ wpc = "none"
  /\ wproc = "parent"
  /\ outFile = <<>>
  /\ errFile = <<>>
  /\ locals = [res |-> RNULL]
  /\ exc = ""
  /\ qbuf = <<>>
  /\ qpipe = <<>>
  /\ expired = FALSE
  /\ ret = NoReturn
  /\ spins = 0
  /\ printed = <<>>
  /\ evaluated = FALSE
  /\ signalled = FALSE
  /\ busyAtDeadline = FALSE
  /\ deposits = 0
  /\ depositedInTime = FALSE
  /\ started = 0
  /\ terminates = 0
  /\ prev = [inst |-> 0, assigned |-> FALSE, sinks |-> <<>>, msg |-> 0,
             unread |-> FALSE]

\* ------------------------------------------------------------- warn_once
\* functools.lru_cache on a function without arguments: the body runs on the
\* first call only, later calls are answered from the cache
warn_once_uncached ==
  /\ emitted' = emitted + 1
  /\ cached' = cached

warn_once ==
  /\ emitted' = IF cached THEN emitted ELSE emitted + 1
  /\ cached' = TRUE

\* ------------------------------------------------------------ RREPL.run
\* "if timeout is not None"
UsesProcess_Always(t) == TRUE

UsesProcess_Inverted(t) == t = NoTimeout

UsesProcess_Truthy(t) == t \notin {NoTimeout, "0"}

UsesProcess(t) == t # NoTimeout

\* queue = multiprocessing.Queue(): every call makes a queue of its own
NewQueue_Shared == qbuf' = qbuf /\ qpipe' = qpipe

NewQueue == qbuf' = <<>> /\ qpipe' = <<>>

\* run, up to the branch on timeout: warn_once(), a new Queue, and with no
\* timeout the worker is entered in the calling process
Run(i, c, t) ==
  /\ pc = "idle"
  /\ nCalls < MaxCalls
  /\ nCalls' = nCalls + 1
  /\ prev' = IF nCalls = 0 THEN prev
              ELSE [inst |-> cur.inst, assigned |-> Assigned(cur.cmd, ret),
                    sinks |-> interp["parent"].sinks,
                    msg |-> interp["parent"].msg,
                    unread |-> (qbuf \o qpipe # <<>>)]
  /\ cur' = [inst |-> i, cmd |-> c, timeout |-> t]
  /\ warn_once
  /\ NewQueue
  /\ deposits' = 0 /\ depositedInTime' = FALSE
  /\ ret' = NoReturn
  /\ expired' = (t = "0")
  /\ started' = 0 /\ terminates' = 0
  /\ proc' = "none"
  /\ spins' = 0 /\ printed' = <<>> /\ exc' = ""
  /\ evaluated' = FALSE /\ signalled' = FALSE /\ busyAtDeadline' = FALSE
  /\ outFile' = <<>> /\ errFile' = <<>> /\ locals' = [res |-> RNULL]
  /\ IF UsesProcess(t)
       THEN pc' = "start" /\ wpc' = "none" /\ wproc' = "child"
       ELSE pc' = "inline" /\ wpc' = "tmp" /\ wproc' = "parent"
  /\ UNCHANGED interp

\* p = Process(target=self.worker, ...); p.start(): the child begins the
\* worker with a copy of the parent's interpreter state
Start ==
  /\ pc = "start"
  /\ pc' = "join"
  /\ proc' = "alive"
  /\ started' = started + 1
  /\ interp' = [interp EXCEPT !["child"] = interp["parent"]]
  /\ wpc' = "tmp"
  /\ UNCHANGED <<cur, nCalls, ret, prev, cached, emitted, wproc, outFile,
                 errFile, locals, exc, spins, printed, evaluated, signalled, qbuf, qpipe, deposits,
                 depositedInTime, expired, terminates, busyAtDeadline>>

\* the deadline of p.join(timeout) passes
Expire ==
  /\ pc = "join"
  /\ ~expired
  /\ expired' = TRUE
  /\ busyAtDeadline' = (wpc = "eval")
  /\ UNCHANGED <<superVars, warnVars, workerVars, queueVars, interp, proc,
                 started, terminates>>

\* p.join(timeout) returns: the process has ended, or the deadline passed
Join ==
  /\ pc = "join"
  /\ proc # "alive" \/ expired
  /\ pc' = "alive"
  /\ UNCHANGED <<cur, nCalls, ret, prev, warnVars, workerVars, queueVars,
                 interp, proc, started, terminates, busyAtDeadline, expired>>

\* "if p.is_alive():"
IsAlive ==
  /\ pc = "alive"
  /\ pc' = IF proc = "alive" THEN "terminate" ELSE "get"
  /\ UNCHANGED <<cur, nCalls, ret, prev, warnVars, workerVars, queueVars,
                 interp, proc, started, terminates, busyAtDeadline, expired>>

\* p.terminate(); return "Execution timed out"
Terminate_NoKill ==
  /\ pc = "terminate"
  /\ proc' = proc
  /\ terminates' = terminates + 1
  /\ ret' = TimedOutMarker
  /\ pc' = "idle"
  /\ UNCHANGED <<cur, nCalls, prev, warnVars, workerVars, queueVars, interp,
                 started, busyAtDeadline, expired>>

Terminate_Retry ==
  /\ pc = "terminate"
  /\ proc' = "killed"
  /\ interp' = [interp EXCEPT !["child"] = Blank]
  /\ terminates' = terminates + 1
  /\ ret' = ret
  /\ pc' = "start"
  /\ UNCHANGED <<cur, nCalls, prev, warnVars, workerVars, queueVars,
                 started, busyAtDeadline, expired>>

Terminate ==
  /\ pc = "terminate"
  /\ proc' = "killed"
  /\ interp' = [interp EXCEPT !["child"] = Blank]
  /\ terminates' = terminates + 1
  /\ ret' = TimedOutMarker
  /\ pc' = "idle"
  /\ UNCHANGED <<cur, nCalls, prev, warnVars, workerVars, queueVars,
                 started, busyAtDeadline, expired>>

\* self.worker(...) returns to run in the calling process
InlineReturn ==
  /\ pc = "inline"
  /\ wproc = "parent" /\ wpc = "done"
  /\ pc' = "get"
  /\ UNCHANGED <<cur, nCalls, ret, prev, warnVars, workerVars, queueVars,
                 interp, proc, started, terminates, busyAtDeadline, expired>>

\* an exception leaving self.worker(...) leaves run as well
InlineRaise ==
  /\ pc = "inline"
  /\ wproc = "parent" /\ wpc = "raised"
  /\ pc' = "idle"
  /\ ret' = Raised
  /\ UNCHANGED <<cur, nCalls, prev, warnVars, workerVars, queueVars,
                 interp, proc, started, terminates, busyAtDeadline, expired>>

\* return queue.get(): blocks, without a timeout, until an item can be read.
\* An item is readable once the feeder thread has written it to the pipe; an
\* item too large for the pipe is streamed to the reader by a live feeder.
Get ==
  /\ pc = "get"
  /\ \/ /\ qpipe # <<>>
        /\ ret' = Head(qpipe).oc
        /\ qpipe' = Tail(qpipe)
        /\ qbuf' = qbuf
     \/ /\ qpipe = <<>> /\ qbuf # <<>>
        /\ ~Fits(Head(qbuf)) /\ WAlive
        /\ ret' = Head(qbuf).oc
        /\ qbuf' = Tail(qbuf)
        /\ qpipe' = qpipe
  /\ pc' = "idle"
  /\ UNCHANGED <<cur, nCalls, prev, warnVars, workerVars, deposits,
                 depositedInTime, interp, proc, started, terminates, busyAtDeadline, expired>>

\* the queue's feeder thread writes a buffered item to the pipe
FeederFlush ==
  /\ qbuf # <<>>
  /\ WAlive
  /\ Fits(Head(qbuf))
  /\ qpipe' = Append(qpipe, Head(qbuf))
  /\ qbuf' = Tail(qbuf)
  /\ UNCHANGED <<superVars, warnVars, workerVars, deposits, depositedInTime,
                 interp, proc, started, terminates, busyAtDeadline, expired>>

\* the child process ends after its target returned or raised; at exit it
\* joins the feeder thread, so it ends only once the buffer is flushed
ChildExit_Merge ==
  /\ wproc = "child" /\ proc = "alive"
  /\ wpc \in {"done", "raised"}
  /\ qbuf = <<>>
  /\ proc' = "exited"
  /\ interp' = [interp EXCEPT !["parent"] = interp["child"],
                              !["child"] = Blank]
  /\ UNCHANGED <<superVars, warnVars, workerVars, queueVars,
                 started, terminates, busyAtDeadline, expired>>

ChildExit ==
  /\ wproc = "child" /\ proc = "alive"
  /\ wpc \in {"done", "raised"}
  /\ qbuf = <<>>
  /\ proc' = "exited"
  /\ interp' = [interp EXCEPT !["child"] = Blank]
  /\ UNCHANGED <<superVars, warnVars, workerVars, queueVars,
                 started, terminates, busyAtDeadline, expired>>

\* --------------------------------------------------------- RREPL.worker
\* the statements inside the try block, each of which may raise
TrySteps == {"sink_out", "sink_msg", "handler", "eval", "unsink_msg",
             "unsink_out", "read"}

\* the R function error_handler: it undoes both redirections, overwrites the
\* error file with the condition's text, and its value (that of close())
\* becomes the value of tryCatch
error_handler_silent(st, c) ==
  [st |-> SinkPop(SinkMsg(st, 0)), errFile |-> <<>>, res |-> "err"]

error_handler(st, c) ==
  [st |-> SinkPop(SinkMsg(st, 0)), errFile |-> CmdErrText(c), res |-> RNULL]

\* "with NamedTemporaryFile(...) as tempf_out, NamedTemporaryFile(...) as
\* tempf_err": two empty files
W_Tempfiles ==
  /\ WAlive /\ wpc = "tmp"
  /\ outFile' = <<>> /\ errFile' = <<>>
  /\ wpc' = "sink_out"
  /\ UNCHANGED <<superVars, warnVars, queueVars, interp, proc, wproc, locals,
                 exc, spins, printed, evaluated, signalled, started, terminates, busyAtDeadline, expired>>

\* creating the temporary files fails: the with statement is outside the
\* try, so the exception leaves worker
W_TempfileFail ==
  /\ WAlive /\ wpc = "tmp"
  /\ wpc' = "raised"
  /\ UNCHANGED <<superVars, warnVars, queueVars, interp, proc, wproc, outFile,
                 errFile, locals, exc, spins, printed, evaluated, signalled, started, terminates, busyAtDeadline,
                 expired>>

\* robjects.r('sink("<tempf_out>")')
W_SinkOut ==
  /\ WAlive /\ wpc = "sink_out"
  /\ interp' = [interp EXCEPT ![wproc] = SinkPush(@, nCalls)]
  /\ wpc' = "sink_msg"
  /\ UNCHANGED <<superVars, warnVars, queueVars, proc, wproc, outFile,
                 errFile, locals, exc, spins, printed, evaluated, signalled, started, terminates, busyAtDeadline,
                 expired>>

\* robjects.r('sink("<tempf_err>", type = "message")')
W_SinkMsg ==
  /\ WAlive /\ wpc = "sink_msg"
  /\ interp' = [interp EXCEPT ![wproc] = SinkMsg(@, nCalls)]
  /\ wpc' = "handler"
  /\ UNCHANGED <<superVars, warnVars, queueVars, proc, wproc, outFile,
                 errFile, locals, exc, spins, printed, evaluated, signalled, started, terminates, busyAtDeadline,
                 expired>>

\* error_handler = robjects.r('function(err) {...}')
W_Handler ==
  /\ WAlive /\ wpc = "handler"
  /\ wpc' = "eval"
  /\ UNCHANGED <<superVars, warnVars, queueVars, interp, proc, wproc, outFile,
                 errFile, locals, exc, spins, printed, evaluated, signalled, started, terminates, busyAtDeadline,
                 expired>>

\* res = robjects.r('tryCatch(<command>, error=<error_handler>)') for a
\* command that ends: its prints go to the top diversion, it is evaluated in
\* the global environment of the process, an R error runs error_handler
W_Eval ==
  /\ WAlive /\ wpc = "eval"
  /\ cur.cmd \notin {"loop", "crash"}
  /\ LET st == interp[wproc]
         text == CmdPrints(cur.cmd)
         h == error_handler(st, cur.cmd)
     IN /\ printed' = text
        /\ evaluated' = TRUE
        /\ signalled' = CmdRaises(cur.cmd, st.env)
        /\ outFile' = IF PrintTarget(st) = nCalls THEN outFile \o text
                      ELSE outFile
        /\ IF CmdRaises(cur.cmd, st.env)
             THEN /\ interp' = [interp EXCEPT ![wproc] = h.st]
                  /\ errFile' = h.errFile
                  /\ locals' = [res |-> h.res]
             ELSE /\ interp' = [interp EXCEPT ![wproc].env =
                                               CmdEnv(cur.cmd, st.env)]
                  /\ errFile' = errFile
                  /\ locals' = [res |-> CmdValue(cur.cmd, st.env)]
  /\ wpc' = "unsink_msg"
  /\ UNCHANGED <<superVars, warnVars, queueVars, proc, wproc, exc, spins,
                 started, terminates, busyAtDeadline, expired>>

\* the same statement for a command that never ends
W_EvalLoop ==
  /\ WAlive /\ wpc = "eval"
  /\ cur.cmd = "loop"
  /\ spins' = IF spins < MaxSpin THEN spins + 1 ELSE spins
  /\ UNCHANGED <<superVars, warnVars, queueVars, interp, proc, wpc, wproc,
                 outFile, errFile, locals, exc, printed, evaluated, signalled, started, terminates, busyAtDeadline,
                 expired>>

\* the same statement for a command that crashes the interpreter's process
W_EvalCrash ==
  /\ WAlive /\ wpc = "eval"
  /\ cur.cmd = "crash"
  /\ wpc' = "dead"
  /\ IF wproc = "child"
       THEN /\ proc' = "crashed" /\ pc' = pc
            /\ interp' = [interp EXCEPT !["child"] = Blank]
       ELSE /\ proc' = proc /\ pc' = "dead"
            /\ interp' = interp
  /\ UNCHANGED <<cur, nCalls, ret, prev, warnVars, queueVars, wproc,
                 outFile, errFile, locals, exc, spins, printed, evaluated, signalled, started,
                 terminates, busyAtDeadline, expired>>

\* robjects.r('sink(type = "message")')
W_UnsinkMsg ==
  /\ WAlive /\ wpc = "unsink_msg"
  /\ interp' = [interp EXCEPT ![wproc] = SinkMsg(@, 0)]
  /\ wpc' = "unsink_out"
  /\ UNCHANGED <<superVars, warnVars, queueVars, proc, wproc, outFile,
                 errFile, locals, exc, spins, printed, evaluated, signalled, started, terminates, busyAtDeadline,
                 expired>>

\* robjects.r('sink()')
W_UnsinkOut ==
  /\ WAlive /\ wpc = "unsink_out"
  /\ interp' = [interp EXCEPT ![wproc] = SinkPop(@)]
  /\ wpc' = "read"
  /\ UNCHANGED <<superVars, warnVars, queueVars, proc, wproc, outFile,
                 errFile, locals, exc, spins, printed, evaluated, signalled, started, terminates, busyAtDeadline,
                 expired>>

\* tempf_out.seek(0); output = tempf_out.read(); the same for tempf_err
W_Read_NoOutput ==
  /\ WAlive /\ wpc = "read"
  /\ locals' = [res |-> locals.res, output |-> <<>>, err |-> errFile]
  /\ wpc' = "put"
  /\ UNCHANGED <<superVars, warnVars, queueVars, interp, proc, wproc, outFile,
                 errFile, exc, spins, printed, evaluated, signalled, started, terminates, busyAtDeadline, expired>>

W_Read ==
  /\ WAlive /\ wpc = "read"
  /\ locals' = [res |-> locals.res, output |-> outFile, err |-> errFile]
  /\ wpc' = "put"
  /\ UNCHANGED <<superVars, warnVars, queueVars, interp, proc, wproc, outFile,
                 errFile, exc, spins, printed, evaluated, signalled, started, terminates, busyAtDeadline, expired>>

\* queue.put(item): the item goes to the queue's buffer
QueuePut_Marker(item) ==
  /\ qbuf' = Append(qbuf, [id |-> nCalls, oc |-> TimedOutMarker])
  /\ qpipe' = qpipe
  /\ deposits' = deposits + 1
  /\ depositedInTime' = (depositedInTime \/ ~expired)

QueuePut(item) ==
  /\ qbuf' = Append(qbuf, [id |-> nCalls, oc |-> item])
  /\ qpipe' = qpipe
  /\ deposits' = deposits + 1
  /\ depositedInTime' = (depositedInTime \/ ~expired)

\* queue.put({'res': res, 'output': output, 'err': error}), then the with
\* block is left and worker returns
W_Put ==
  /\ WAlive /\ wpc = "put"
  /\ QueuePut(locals)
  /\ wpc' = "done"
  /\ UNCHANGED <<superVars, warnVars, interp, proc, wproc, outFile, errFile,
                 locals, exc, spins, printed, evaluated, signalled, started, terminates, busyAtDeadline, expired>>

\* a statement of the try block raises a Python exception
W_Raise ==
  /\ WAlive /\ wpc \in TrySteps
  /\ cur.cmd \notin {"loop", "crash"} \/ wpc # "eval"
  /\ exc' = wpc
  /\ wpc' = "except"
  /\ UNCHANGED <<superVars, warnVars, queueVars, interp, proc, wproc, outFile,
                 errFile, locals, spins, printed, evaluated, signalled, started, terminates, busyAtDeadline,
                 expired>>

\* except Exception as e: queue.put({'err': str(e)})
W_Except ==
  /\ WAlive /\ wpc = "except"
  /\ QueuePut([err |-> <<exc>>])
  /\ wpc' = "done"
  /\ UNCHANGED <<superVars, warnVars, interp, proc, wproc, outFile, errFile,
                 locals, exc, spins, printed, evaluated, signalled, started, terminates, busyAtDeadline, expired>>

Worker ==
  \/ W_Tempfiles \/ W_TempfileFail \/ W_SinkOut \/ W_SinkMsg \/ W_Handler
  \/ W_Eval \/ W_EvalLoop \/ W_EvalCrash \/ W_UnsinkMsg \/ W_UnsinkOut
  \/ W_Read \/ W_Put \/ W_Raise \/ W_Except

Next ==
  \/ \E i \in Instances, c \in Commands, t \in Timeouts : Run(i, c, t)
  \/ Start \/ Expire \/ Join \/ IsAlive \/ Terminate
  \/ InlineReturn \/ InlineRaise \/ Get \/ FeederFlush \/ ChildExit
  \/ W_Tempfiles \/ W_TempfileFail \/ W_SinkOut \/ W_SinkMsg \/ W_Handler
  \/ W_Eval \/ W_EvalLoop \/ W_EvalCrash \/ W_UnsinkMsg \/ W_UnsinkOut
  \/ W_Read \/ W_Put \/ W_Raise \/ W_Except

Spec == Init /\ [][Next]_vars

TypeOK ==
  /\ pc \in {"idle", "start", "join", "alive", "terminate", "inline", "get",
             "dead"}
  /\ proc \in {"none", "alive", "exited", "crashed", "killed"}
  /\ nCalls \in 0..MaxCalls
  /\ deposits \in 0..1

\* the scheduling the operating system provides: a runnable supervisor,
\* worker, feeder thread or exiting process is eventually run, and the
\* deadline of a pending join eventually passes
FairSpec ==
  /\ Init /\ [][Next]_vars
  /\ WF_vars(Start) /\ WF_vars(Expire) /\ WF_vars(Join) /\ WF_vars(IsAlive)
  /\ WF_vars(Terminate) /\ WF_vars(InlineReturn) /\ WF_vars(InlineRaise)
  /\ WF_vars(Get) /\ WF_vars(FeederFlush) /\ WF_vars(ChildExit)
  /\ WF_vars(Worker)

\* ==================================================================== C1
\* C1: run returns the timeout marker only when no Outcome was deposited on
\* the result channel before the deadline expired.
C1_DepositReturned == ret = TimedOutMarker => ~depositedInTime

\* ==================================================================== C2
\* a run call with a timeout is in progress
TimedRunning ==
  cur.timeout # NoTimeout /\ pc \in {"start", "join", "alive", "terminate", "get"}

\* C2: every run call with a timeout present eventually returns, also when
\* the worker process dies without depositing anything.
C2_TimedRunReturns == TimedRunning ~> (pc = "idle")

C4_WorkerAlwaysDeposits ==
  wpc \in {"done", "raised"}
     => /\ wpc = "done"
        /\ deposits = 1
        /\ (exc # "" \/ signalled)
              => \E i \in 1..Len(qbuf \o qpipe) : (qbuf \o qpipe)[i].oc.err # <<>>

\* ==================================================================== C5
\* C5: when a call that assigned x completed and the next call on the same
\* instance reads x, the read returns the assigned value.
C5_SecondCallSeesFirst ==
  (/\ pc = "idle" /\ nCalls >= 2
   /\ prev.assigned /\ prev.inst = cur.inst
   /\ cur.cmd = "read" /\ IsOutcome(ret) /\ "res" \in DOMAIN ret)
     => (ret.res = "1" /\ ret.err = <<>>)

\* ==================================================================== C6
\* is the value field of Outcome r absent: no 'res' entry, or R's NULL
ValueAbsent(r) == "res" \notin DOMAIN r \/ r.res = RNULL

C7_OutputIsPrinted ==
  (pc = "idle" /\ IsOutcome(ret) /\ evaluated)
     => ("output" \in DOMAIN ret /\ ret.output = printed)

\* C7 as amended: when no statement of worker raised a Python exception, the
\* returned Outcome's output is exactly what the command printed (also the
\* text printed before an R error); when one did, the Outcome has the error
\* field only and the printed text is not reported.
C7_OutputIsPrintedUnlessFault ==
  (pc = "idle" /\ IsOutcome(ret))
     => IF exc = ""
          THEN evaluated /\ "output" \in DOMAIN ret /\ ret.output = printed
          ELSE DOMAIN ret = {"err"}

\* text printed before an R error came back as the output
C7_Witness ==
  /\ pc = "idle" /\ IsOutcome(ret) /\ exc = "" /\ signalled
  /\ printed = <<"a">> /\ ret.output = <<"a">>

\* ==================================================================== C8
\* a call without timeout is evaluating a command that never ends
InlineLoop == cur.timeout = NoTimeout /\ cur.cmd = "loop" /\ wpc = "eval"

\* C8: such a call stays in the evaluation for ever: it has not returned, no
\* deadline runs or has expired, no process was started or terminated.
C8_InlineLoopNeverReturns ==
  [][InlineLoop => /\ pc = "inline" /\ ret = NoReturn /\ ~expired
                   /\ started = 0 /\ terminates = 0
                   /\ InlineLoop' /\ pc' = "inline" /\ ret' = NoReturn]_vars

C8_Witness == InlineLoop /\ spins >= 1 /\ pc = "inline"

\* ==================================================================== C9
\* the Outcome the current invocation of worker put on the queue
Deposited == IF exc = "" THEN locals ELSE [err |-> <<exc>>]

\* C9: a call without timeout starts no process, runs worker in the calling
\* process, and returns the Outcome that worker deposited.
C9_InlineNoProcess ==
  (cur.timeout = NoTimeout /\ nCalls >= 1)
     => /\ started = 0 /\ proc = "none" /\ wproc = "parent"
        /\ (pc = "idle" /\ IsOutcome(ret)) => (deposits = 1 /\ ret = Deposited)

C9_Witness ==
  /\ cur.timeout = NoTimeout /\ pc = "idle" /\ IsOutcome(ret)
  /\ started = 0 /\ ret = Deposited /\ "output" \in DOMAIN ret

\* =================================================================== C10
\* C10: the warning has been emitted exactly once as soon as one call was
\* made, whatever the instances and timeouts of the calls, and the memo is
\* never cleared.
C10_WarnedOnce ==
  /\ nCalls = 0 => (emitted = 0 /\ ~cached)
  /\ nCalls >= 1 => (emitted = 1 /\ cached)

\* two calls on different instances, one timed and one not
C10_Witness ==
  /\ nCalls >= 2 /\ emitted = 1 /\ prev.inst # cur.inst
  /\ cur.timeout # NoTimeout

\* =================================================================== C11
\* the items of the current call's queue, buffered or in the pipe
Items == qbuf \o qpipe

\* C11: nothing worker puts on the queue equals the timeout marker, and run
\* hands back the marker only on the path that terminated the process.
C11_MarkerDistinct ==
  /\ \A k \in 1..Len(Items) :
        IsOutcome(Items[k].oc) /\ Items[k].oc # TimedOutMarker
  /\ ret = TimedOutMarker => (terminates = 1 /\ ~IsOutcome(ret))
  /\ (pc = "idle" /\ ret # NoReturn /\ terminates = 0 /\ ret # Raised)
        => (IsOutcome(ret) /\ ret # TimedOutMarker)

\* a call was reported as timed out although an Outcome lay in its queue
C11_Witness ==
  /\ pc = "idle" /\ ret = TimedOutMarker /\ Items # <<>>
  /\ "output" \in DOMAIN Items[1].oc

\* =================================================================== C12
\* C12: a call on an instance changes no environment other than the one the
\* instance holds in its environment field.
C12_OnlyOwnEnvironment ==
  [][\A e \in {"globalenv", "env2"} :
        e # environment(cur.inst)
           => EnvOf(interp'["parent"], e) = EnvOf(interp["parent"], e)]_vars

\* =================================================================== C13
\* C13: when worker has returned, the print diversions and the message
\* redirection of the process it ran in are what they were when the call
\* began.
C13_StreamsRestored ==
  (wpc = "done" /\ (wproc = "parent" \/ proc = "alive"))
     => /\ interp[wproc].sinks = prev.sinks
        /\ interp[wproc].msg = prev.msg

\* =================================================================== C14
\* C14: within one call worker is entered once (by run itself without
\* timeout, by the one process started with it), and once the call has a
\* result nothing more happens for that call: no second result, no redispatch.
C14_OneDispatchOneResult ==
  [][ /\ started' <= 1
      /\ (wpc' = "tmp" /\ wpc # "tmp")
            => \/ nCalls' = nCalls + 1 /\ cur'.timeout = NoTimeout
               \/ pc = "start" /\ started = 0 /\ started' = 1
      /\ (pc' = "start") => nCalls' = nCalls + 1
      /\ (ret # NoReturn /\ nCalls' = nCalls)
            => /\ ret' = ret /\ pc' = pc /\ wpc' = wpc
               /\ started' = started /\ deposits' = deposits ]_vars

\* a second call, made after the first one ended, was reported as timed out
C14_Witness ==
  /\ pc = "idle" /\ nCalls >= 2 /\ ret = TimedOutMarker
  /\ started = 1 /\ terminates = 1

C16_OwnOutcome ==
  [][(pc = "get" /\ pc' = "idle")
        => /\ deposits = 1
           /\ \A k \in 1..Len(Items) : Items[k].id = nCalls
           /\ \E k \in 1..Len(Items) : Items[k].oc = ret']_vars

\* the previous call left an Outcome unread and this call returned its own
C16_Witness ==
  /\ pc = "idle" /\ nCalls >= 2 /\ prev.unread
  /\ IsOutcome(ret) /\ "output" \in DOMAIN ret

\* =================================================================== C17
\* C17: while a call with a timeout is in progress, and when it has ended,
\* the interpreter state of the calling process (bindings, print diversions,
\* message redirection) is what it was when the call began.
C17_TimedCallLeavesCaller ==
  [][(cur'.timeout # NoTimeout /\ nCalls' >= 1)
        => interp'["parent"] = interp["parent"]]_vars

\* a timed assignment came back as completed, the caller's x is still unbound
C17_Witness ==
  /\ cur.timeout # NoTimeout /\ pc = "idle" /\ cur.cmd = "assign"
  /\ IsOutcome(ret) /\ "res" \in DOMAIN ret /\ ret.res = "1"
  /\ interp["parent"].env = Unbound

====
